---------------------------- MODULE Spec2Model ----------------------------
(***************************************************************************)
(* Model of the test-plan validator of src/dsl.py: validate_plan walking   *)
(* the steps of a parsed TestPlan against a JsonASTProvider while it       *)
(* fills the type environment DSLContext.variables.                        *)
(*                                                                         *)
(* Python values.  Every Python scalar that a plan or the AST index can    *)
(* carry is a record [kind, chars]:                                        *)
(*   kind = "str"   a str; chars is the sequence of its lexical atoms:     *)
(*                  every digit, "." and "$" is an atom of its own, and a  *)
(*                  maximal run of other characters is one atom, so that   *)
(*                  "1.5" is <<"1", ".", "5">>, "$count" is                *)
(*                  <<"$", "count">> and "lib::Fruit" is <<"lib::Fruit">>; *)
(*   kind = "num"   a JSON number (a Python int), chars its digits;        *)
(*   kind = "none"  None.                                                  *)
(* Two Python values are equal iff their records are equal.                *)
(***************************************************************************)
EXTENDS Integers, Sequences, FiniteSets

Str(chars) == [kind |-> "str", chars |-> chars]

Num(chars) == [kind |-> "num", chars |-> chars]

None == [kind |-> "none", chars |-> <<>>]

\* A one-atom str: an identifier, a word or a fully qualified name.
W(atom) == Str(<<atom>>)

Digits == {"0", "1", "2", "3", "4", "5", "6", "7", "8", "9"}

\* Python truthiness of a value: None, "" and 0 are falsy.
Truthy(v) ==
    CASE v.kind = "none" -> FALSE
      [] v.kind = "str"  -> v.chars # <<>>
      [] OTHER           -> v.chars # <<"0">>

\* str.isdigit(): non-empty and every character a digit.
isdigit(chars) == Len(chars) > 0 /\ \A i \in 1..Len(chars) : chars[i] \in Digits

\* str.replace(".", "", 1): the string without its first ".".
RECURSIVE replace_first_dot(_)
replace_first_dot(chars) ==
    IF chars = <<>> THEN <<>>
    ELSE IF Head(chars) = "." THEN Tail(chars)
    ELSE <<Head(chars)>> \o replace_first_dot(Tail(chars))

\* str.startswith("$")
startswith_dollar(chars) == Len(chars) > 0 /\ Head(chars) = "$"

-----------------------------------------------------------------------------
(***************************************************************************)
(* The AST index (ast.json): files in insertion order, each with the       *)
(* classes and functions the indexer recorded.  A class record always has  *)
(* "methods" (constructors and destructors included, with return_type      *)
(* None); "fields" is optional.  A builtin type is recorded as "".         *)
(***************************************************************************)
Param(type) == [type |-> type]

Method(kind, fqn, params, return_type) ==
    [kind |-> kind, fqn |-> fqn, params |-> params, return_type |-> return_type]

FruitClass ==
    [kind |-> "class_decl", fqn |-> W("lib::Fruit"),
     methods |-> <<
        Method("constructor", W("lib::Fruit::Fruit"),
               <<Param(W("std::string"))>>, None),
        Method("cxx_method", W("lib::Fruit::name"), <<>>, W("std::string")) >>,
     fields |-> << [name |-> W("name"), type |-> W("std::string")] >>]

BoxClass ==
    [kind |-> "struct_decl", fqn |-> W("lib::BoxOfFruits"),
     methods |-> <<
        Method("constructor", W("lib::BoxOfFruits::BoxOfFruits"), <<>>, None),
        Method("cxx_method", W("lib::BoxOfFruits::add"),
               <<Param(W("lib::Fruit"))>>, Str(<<>>)),
        Method("cxx_method", W("lib::BoxOfFruits::add"),
               <<Param(W("std::string"))>>, Str(<<>>)),
        Method("cxx_method", W("lib::BoxOfFruits::count"), <<>>, Str(<<>>)),
        Method("cxx_method", W("lib::BoxOfFruits::first"), <<>>,
               W("lib::Fruit")) >>]

MakeFruit ==
    [kind |-> "function", fqn |-> W("lib::make_fruit"),
     params |-> <<>>, return_type |-> W("lib::Fruit")]

AstIndex ==
    << [classes |-> <<FruitClass>>, functions |-> <<MakeFruit>>],
       [classes |-> <<BoxClass>>, functions |-> <<>>] >>

\* dict.get(key, default) on a record of the index
GetOr(rec, key, default) == IF key \in DOMAIN rec THEN rec[key] ELSE default

\* The (fqn, symbol) assignments _build_symbol_index makes, in order.
RECURSIVE ClassEntries(_)
ClassEntries(classes) ==
    IF classes = <<>> THEN <<>>
    ELSE LET cls == Head(classes)
             ms  == GetOr(cls, "methods", <<>>)
         IN  <<cls>> \o ms \o ClassEntries(Tail(classes))

RECURSIVE SymbolEntries(_)
SymbolEntries(files) ==
    IF files = <<>> THEN <<>>
    ELSE LET file == Head(files)
         IN  ClassEntries(GetOr(file, "classes", <<>>))
             \o GetOr(file, "functions", <<>>)
             \o SymbolEntries(Tail(files))

\* The symbol table _build_symbol_index leaves: under each fqn the last
\* symbol assigned to it.
LastEntry(es, fqn) ==
    LET hits == {i \in 1..Len(es) : es[i].fqn = fqn}
    IN  IF hits = {} THEN None
        ELSE es[CHOOSE i \in hits : \A j \in hits : j <= i]

\* self.symbols.get(fqn)
symbols_get(fqn) == LastEntry(SymbolEntries(AstIndex), fqn)

\* "sym and sym[kind] in (class_decl, struct_decl)"
ClassOrNone(sym) ==
    IF sym # None /\ sym.kind \in {"class_decl", "struct_decl"}
    THEN sym ELSE None

get_class(fqn) == ClassOrNone(symbols_get(fqn))

-----------------------------------------------------------------------------
(***************************************************************************)
(* Outcomes of a call.  A Python call either returns, raises               *)
(* DSLValidationError (status "error", kind = the taxonomy name of the     *)
(* message raised) or raises another exception (status "crash", kind =     *)
(* the exception class), which no "except DSLValidationError" catches.     *)
(***************************************************************************)
Returned(value) == [status |-> "ok", kind |-> "", value |-> value]

Raised(kind) == [status |-> "error", kind |-> kind, value |-> None]

Crashed(exc) == [status |-> "crash", kind |-> exc, value |-> None]

\* A DSLValidationError whose message names an argument position
\* ("arg {i} type mismatch"): arg is that 0-based position.
RaisedAt(kind, arg) ==
    [status |-> "error", kind |-> kind, value |-> None, arg |-> arg]

\* Mutant of Bind: the environment is rebuilt from the new binding alone.
Bind_replacing(variables, key, value) == [k \in {key} |-> value]

\* ctx.variables[key] = value
Bind(variables, key, value) ==
    [k \in DOMAIN variables \cup {key} |->
        IF k = key THEN value ELSE variables[k]]

infer_arg_type(arg, variables) ==
    IF arg \in DOMAIN variables THEN Returned(variables[arg])
    ELSE IF arg.kind # "str" THEN Crashed("AttributeError")
    ELSE IF isdigit(arg.chars) THEN Returned(W("int"))
    ELSE IF isdigit(replace_first_dot(arg.chars)) THEN Returned(W("double"))
    ELSE IF arg \in {W("true"), W("false")} THEN Returned(W("bool"))
    ELSE IF arg.kind = "str" THEN Returned(W("std::string"))
    ELSE Raised("UnknownArgument")

is_type_compatible(actual, expected) == actual = expected

\* The for loop of check_args from position i on.
RECURSIVE check_args_from(_, _, _, _)
check_args_from(expected_params, actual_args, variables, i) ==
    IF i > Len(expected_params) THEN Returned(None)
    ELSE LET expected == expected_params[i].type
             actual   == infer_arg_type(actual_args[i], variables)
         IN  IF actual.status # "ok" THEN actual
             ELSE IF ~is_type_compatible(actual.value, expected)
                  THEN RaisedAt("TypeMismatch", i - 1)
             ELSE check_args_from(expected_params, actual_args, variables, i + 1)

check_args(expected_params, actual_args, variables) ==
    IF Len(expected_params) # Len(actual_args) THEN Raised("ArityMismatch")
    ELSE check_args_from(expected_params, actual_args, variables, 1)

\* The body of get_constructors once get_class has answered cls.
ConstructorsOf(cls) ==
    IF cls = None THEN Raised("UnknownType")
    ELSE IF "methods" \notin DOMAIN cls THEN Crashed("KeyError")
    ELSE Returned(SelectSeq(cls.methods, LAMBDA m : m.kind = "constructor"))

get_constructors(fqn) == ConstructorsOf(get_class(fqn))

\* The scan of find_method over cls.get("methods", []): the first method
\* whose fqn is method_fqn, else None (also when cls is None).
FirstMethod(cls, method_fqn) ==
    LET ms   == IF cls = None THEN <<>> ELSE GetOr(cls, "methods", <<>>)
        hits == {i \in 1..Len(ms) : ms[i].fqn = method_fqn}
    IN  IF hits = {} THEN None
        ELSE ms[CHOOSE i \in hits : \A j \in hits : i <= j]

find_method(class_fqn, method_fqn) == FirstMethod(get_class(class_fqn), method_fqn)

-----------------------------------------------------------------------------
(***************************************************************************)
(* The step validators.  Each takes the step and ctx.variables and yields  *)
(* an outcome whose value, when it returned, is ctx.variables after it.    *)
(***************************************************************************)

\* The "for ctor in ctors" loop of validate_create from candidate i on:
\* the first candidate check_args accepts binds id; a DSLValidationError
\* is swallowed and the next candidate tried; anything else propagates.
RECURSIVE try_constructors(_, _, _, _)
try_constructors(ctors, step, variables, i) ==
    IF i > Len(ctors) THEN Raised("NoMatchingConstructor")
    ELSE LET r == check_args(ctors[i].params, step.args, variables)
         IN  CASE r.status = "ok"    -> Returned(Bind(variables, step.id, step.type))
               [] r.status = "error" -> try_constructors(ctors, step, variables, i + 1)
               [] OTHER              -> r

\* validate_create once get_constructors has answered ctors.
create_with(ctors, step, variables) ==
    IF ctors.status # "ok" THEN ctors
    ELSE try_constructors(ctors.value, step, variables, 1)

validate_create(step, variables) ==
    create_with(get_constructors(step.type), step, variables)

\* Mutant of call_checked: the result is bound to the target's type.
call_checked_target_type(r, method, step, variables) ==
    IF r.status # "ok" THEN r
    ELSE IF Truthy(step.result)
         THEN Returned(Bind(variables, step.result, variables[step.target]))
    ELSE Returned(variables)

\* The end of validate_call once check_args has answered r.
call_checked(r, method, step, variables) ==
    IF r.status # "ok" THEN r
    ELSE IF Truthy(step.result)
         THEN Returned(Bind(variables, step.result, method.return_type))
    ELSE Returned(variables)

\* validate_call once find_method has answered method.
call_with(method, step, variables) ==
    IF method = None THEN Raised("MethodNotFound")
    ELSE call_checked(check_args(method.params, step.args, variables),
                      method, step, variables)

\* "obj_type = ctx.variables.get(step.target); if not obj_type: raise"
validate_call(step, variables) ==
    IF ~Truthy(GetOr(variables, step.target, None))
    THEN Raised("UnknownVariable")
    ELSE call_with(find_method(variables[step.target], step.method),
                   step, variables)

\* Mutant of get_with: cls["fields"] in place of cls.get("fields", []).
get_with_required_fields(cls, step) ==
    IF cls = None THEN Raised("UnknownType")
    ELSE IF "fields" \notin DOMAIN cls THEN Crashed("KeyError")
    ELSE IF step.field \notin {cls.fields[i].name : i \in 1..Len(cls.fields)}
         THEN Raised("FieldNotFound")
    ELSE Crashed("AttributeError")

\* validate_get once get_class has answered cls.
get_with(cls, step) ==
    IF cls = None THEN Raised("UnknownType")
    ELSE LET fields == GetOr(cls, "fields", <<>>)
         IN  IF step.field \notin {fields[i].name : i \in 1..Len(fields)}
             THEN Raised("FieldNotFound")
             \* ctx.values[step.result] = None: DSLContext has no
             \* attribute "values"
             ELSE Crashed("AttributeError")

validate_get(step, variables) ==
    IF step.target \notin DOMAIN variables THEN Raised("UnknownVariable")
    ELSE get_with(get_class(variables[step.target]), step)

\* Mutant of bad_reference: the operand is looked up with its "$".
bad_reference_unstripped(side, variables) ==
    /\ side.kind = "str"
    /\ startswith_dollar(side.chars)
    /\ side \notin DOMAIN variables

\* One operand of validate_assert's loop: TRUE when it raises.
bad_reference(side, variables) ==
    /\ side.kind = "str"
    /\ startswith_dollar(side.chars)
    /\ Str(Tail(side.chars)) \notin DOMAIN variables

validate_assert(step, variables) ==
    IF bad_reference(step.expr.left, variables) THEN Raised("UnknownReference")
    ELSE IF bad_reference(step.expr.right, variables) THEN Raised("UnknownReference")
    ELSE Returned(variables)

validate_expect_fail(step, variables) ==
    IF step.step < 0 THEN Raised("InvalidStepReference")
    ELSE Returned(variables)

validate_step(step, variables) ==
    CASE step.op = "create"      -> validate_create(step, variables)
      [] step.op = "call"        -> validate_call(step, variables)
      [] step.op = "get"         -> validate_get(step, variables)
      [] step.op = "assert"      -> validate_assert(step, variables)
      [] step.op = "expect_fail" -> validate_expect_fail(step, variables)
      [] OTHER                   -> Raised("UnsupportedStep")

-----------------------------------------------------------------------------
(***************************************************************************)
(* Plans.  The typed steps parse_test_plan builds, drawn from a universe   *)
(* that exercises every branch of the validators against AstIndex.         *)
(***************************************************************************)
CreateStep(id, type, args) ==
    [op |-> "create", id |-> id, type |-> type, args |-> args]

CallStep(target, method, args, result) ==
    [op |-> "call", target |-> target, method |-> method, args |-> args,
     result |-> result]

GetStep(target, field, result) ==
    [op |-> "get", target |-> target, field |-> field, result |-> result]

AssertStep(left, right) ==
    [op |-> "assert", expr |-> [op |-> "equals", left |-> left, right |-> right]]

ExpectFailStep(step) == [op |-> "expect_fail", step |-> step]

StepUniverse ==
    { CreateStep(W("f"), W("lib::Fruit"), <<W("apple")>>),
      CreateStep(W("box"), W("lib::BoxOfFruits"), <<>>),
      CreateStep(W("f"), W("lib::Fruit"), <<W("apple"), W("banana")>>),
      CreateStep(W("f"), W("lib::Fruit"), <<Str(<<"1">>)>>),
      CreateStep(W("f"), W("lib::Fruit"), <<Num(<<"2">>)>>),
      CreateStep(W("f"), W("lib::make_fruit"), <<>>),
      CallStep(W("box"), W("lib::BoxOfFruits::add"), <<W("f")>>, None),
      CallStep(W("box"), W("lib::BoxOfFruits::count"), <<>>, W("c")),
      CallStep(W("box"), W("lib::BoxOfFruits::count"), <<>>, Str(<<>>)),
      CallStep(W("box"), W("lib::BoxOfFruits::count"), <<Str(<<"1">>)>>, W("c")),
      CallStep(W("box"), W("lib::BoxOfFruits::add"), <<Str(<<"1">>)>>, W("r")),
      CallStep(W("box"), W("lib::BoxOfFruits::first"), <<>>, W("r")),
      CallStep(W("box"), W("lib::BoxOfFruits::BoxOfFruits"), <<>>, W("r")),
      CallStep(W("r"), W("lib::Fruit::name"), <<>>, W("c")),
      CallStep(W("f"), W("lib::BoxOfFruits::count"), <<>>, None),
      CallStep(W("c"), W("lib::Fruit::name"), <<>>, None),
      GetStep(W("f"), W("name"), W("n")),
      GetStep(W("f"), W("size"), W("n")),
      GetStep(W("box"), W("name"), W("n")),
      GetStep(W("r"), W("name"), W("n")),
      AssertStep(Str(<<"$", "c">>), Num(<<"2">>)),
      AssertStep(W("c"), Str(<<"$", "f">>)),
      ExpectFailStep(0),
      ExpectFailStep(-1) }

MaxSteps == 3

\* The plans of n steps of the universe.
PlansOfLength(n) == [1..n -> StepUniverse]

-----------------------------------------------------------------------------
(***************************************************************************)
(* validate_plan as a state machine: one action per iteration of its loop, *)
(* named after the validator the iteration dispatches to.                  *)
(*   plan       plan.steps                                                 *)
(*   idx        the 0-based index of the step the loop is at               *)
(*   variables  ctx.variables                                              *)
(*   outcome    "running"; "ok" once validate_plan returned; "error" once  *)
(*              it raised the annotated DSLValidationError; "crash" once   *)
(*              another exception left it                                  *)
(*   error      what was raised: the step index and op of the annotation   *)
(*              (absent on a crash) and the kind                           *)
(*   validated  history: the indices validate_step was called on, in order *)
(*   pre        history: ctx.variables before the latest validate_step     *)
(***************************************************************************)
VARIABLES plan, idx, variables, outcome, error, validated, pre

(***************************************************************************)
(* check_args and infer_arg_type called on their own (SpecArgs), with      *)
(* ctx.variables in the variable "variables":                              *)
(*   expected_params, actual_args  the arguments of check_args             *)
(*   checked    the outcome of the latest check_args call                  *)
(*   inferred   the latest infer_arg_type call: its argument and outcome   *)
(***************************************************************************)
VARIABLES expected_params, actual_args, checked, inferred

args_vars == <<expected_params, actual_args, checked, inferred>>

(***************************************************************************)
(* The module-level run "plan = parse_test_plan(json_plan);                *)
(* validate_plan(plan, provider)" (SpecParse):                             *)
(*   data    the plan document handed to parse_test_plan                   *)
(*   parsed  how many elements of data["steps"] parse_step was called on   *)
(* While parse_test_plan runs, plan is the list its comprehension has      *)
(* built so far and outcome is "parsing".                                  *)
(***************************************************************************)
VARIABLES data, parsed

parse_vars == <<data, parsed>>

(***************************************************************************)
(* One call of SearchService.semantic_search (SpecSearch):                 *)
(*   query, top_k     its arguments                                        *)
(*   ast_index        ctx.ast_index: the files in the order of .values()   *)
(*   embeddings       ctx.embeddings                                       *)
(*   search_pc        "idle"; "awaiting" while embed_query awaits the      *)
(*                    provider; "returned"; "raised" once the provider's   *)
(*                    exception left semantic_search                       *)
(*   query_embedding  what the provider answered                           *)
(*   hits             the list semantic_search returned                    *)
(***************************************************************************)
VARIABLES query, top_k, ast_index, embeddings, search_pc, query_embedding, hits

search_vars ==
    <<query, top_k, ast_index, embeddings, search_pc, query_embedding, hits>>

(***************************************************************************)
(* Two validate_plan calls over one provider, for the isolation of runs.   *)
(*   runs      per call: its plan, the idx of its loop, the DSLContext it  *)
(*             created (ctx, 0 before the call), its outcome and error,    *)
(*             and history: whether it validated a step while the other    *)
(*             call was between two of its steps                           *)
(*   contexts  the DSLContext objects: ctx.variables of each               *)
(*   index     the provider's index, JsonASTProvider.index and .symbols    *)
(***************************************************************************)
VARIABLES runs, contexts, index

runs_vars == <<runs, contexts, index>>

\* The variables no action of validate_plan touches.
other_vars == <<args_vars, parse_vars, search_vars, runs_vars>>

vars == <<plan, idx, variables, outcome, error, validated, pre, other_vars>>

EmptyEnv == [k \in {} |-> None]

NoError == [step_index |-> -1, op |-> "", kind |-> ""]

\* No call has been made yet.
NotCalled == [status |-> "not called", kind |-> "", value |-> None]

\* Nothing calls check_args or infer_arg_type on its own.
ArgsUnused ==
    /\ expected_params = <<>>
    /\ actual_args = <<>>
    /\ checked = NotCalled
    /\ inferred = NotCalled

\* No document is being parsed.
ParseUnused ==
    /\ data = EmptyEnv
    /\ parsed = 0

\* No search is made.
SearchUnused ==
    /\ query = <<>>
    /\ top_k = 0
    /\ ast_index = <<>>
    /\ embeddings = <<>>
    /\ search_pc = "idle"
    /\ query_embedding = <<>>
    /\ hits = <<>>

\* No second call: the provider is built and nothing else.
RunsUnused ==
    /\ runs = <<>>
    /\ contexts = <<>>
    /\ index = AstIndex

Init ==
    /\ \E n \in 0..MaxSteps : plan \in PlansOfLength(n)
    /\ idx = 0
    /\ variables = EmptyEnv
    /\ outcome = "running"
    /\ error = NoError
    /\ validated = <<>>
    /\ pre = EmptyEnv
    /\ ArgsUnused
    /\ ParseUnused
    /\ SearchUnused
    /\ RunsUnused

\* Mutant of step_boundary: a DSLValidationError is swallowed and the loop
\* goes on to the next step.
step_boundary_continuing(r, step) ==
    CASE r.status = "crash" ->
           /\ outcome' = "crash"
           /\ error' = [step_index |-> -1, op |-> "", kind |-> r.kind]
           /\ UNCHANGED <<variables, idx>>
      [] OTHER ->
           /\ variables' = IF r.status = "ok" THEN r.value ELSE variables
           /\ idx' = idx + 1
           /\ UNCHANGED <<outcome, error>>

\* Mutant of step_boundary: a Create has bound its id, and a Call its
\* result, before the checks that fail, and the binding stays.
step_boundary_bound_early(r, step) ==
    CASE r.status = "ok" ->
           /\ variables' = r.value
           /\ idx' = idx + 1
           /\ UNCHANGED <<outcome, error>>
      [] r.status = "error" ->
           /\ outcome' = "error"
           /\ error' = [step_index |-> idx, op |-> step.op, kind |-> r.kind]
           /\ variables' =
                 CASE step.op = "create" -> Bind(variables, step.id, step.type)
                   [] step.op = "call" /\ Truthy(step.result) ->
                        Bind(variables, step.result, None)
                   [] OTHER -> variables
           /\ UNCHANGED idx
      [] OTHER ->
           /\ outcome' = "crash"
           /\ error' = [step_index |-> -1, op |-> "", kind |-> r.kind]
           /\ UNCHANGED <<variables, idx>>

\* The try/except of validate_plan around validate_step, whose outcome is
\* r: go on to the next step, re-raise DSLValidationError annotated with
\* the step's index and op, or let any other exception through as it is.
step_boundary(r, step) ==
    CASE r.status = "ok" ->
           /\ variables' = r.value
           /\ idx' = idx + 1
           /\ UNCHANGED <<outcome, error>>
      [] r.status = "error" ->
           /\ outcome' = "error"
           /\ error' = [step_index |-> idx, op |-> step.op, kind |-> r.kind]
           /\ UNCHANGED <<variables, idx>>
      [] OTHER ->
           /\ outcome' = "crash"
           /\ error' = [step_index |-> -1, op |-> "", kind |-> r.kind]
           /\ UNCHANGED <<variables, idx>>

\* The loop of validate_plan is at a step of the given op.
at_step(op) ==
    /\ outcome = "running"
    /\ idx < Len(plan)
    /\ plan[idx + 1].op = op

\* One iteration of the loop of validate_plan.
validate_plan_iteration ==
    /\ validated' = Append(validated, idx)
    /\ pre' = variables
    /\ step_boundary(validate_step(plan[idx + 1], variables), plan[idx + 1])
    /\ UNCHANGED <<plan, other_vars>>

ValidateCreate ==
    /\ at_step("create")
    /\ validate_plan_iteration

ValidateCall ==
    /\ at_step("call")
    /\ validate_plan_iteration

ValidateGet ==
    /\ at_step("get")
    /\ validate_plan_iteration

ValidateAssert ==
    /\ at_step("assert")
    /\ validate_plan_iteration

ValidateExpectFail ==
    /\ at_step("expect_fail")
    /\ validate_plan_iteration

\* The loop is exhausted: validate_plan returns.
ValidatePlanReturn ==
    /\ outcome = "running"
    /\ idx = Len(plan)
    /\ outcome' = "ok"
    /\ UNCHANGED <<plan, idx, variables, error, validated, pre, other_vars>>

Next ==
    \/ ValidateCreate
    \/ ValidateCall
    \/ ValidateGet
    \/ ValidateAssert
    \/ ValidateExpectFail
    \/ ValidatePlanReturn

Spec == Init /\ [][Next]_vars

-----------------------------------------------------------------------------
(***************************************************************************)
(* SpecArgs: check_args and infer_arg_type as the validators call them,    *)
(* on every parameter list, argument list and environment of the bounds.   *)
(***************************************************************************)
\* The declared parameter types of the parameter lists.
ParamTypes == {W("int"), W("double"), W("std::string"), W("lib::Fruit")}

\* The argument tokens: a word, digits, a decimal number, two decimal
\* points, a lone point, a boolean word, and a JSON number.
ArgUniverse ==
    { W("f"), Str(<<"1">>), Str(<<"1", ".", "5">>),
      Str(<<"1", ".", "2", ".", "3">>), Str(<<".">>), W("true"),
      Num(<<"2">>) }

\* ctx.variables when the call is made.
EnvUniverse ==
    { EmptyEnv,
      Bind(EmptyEnv, W("f"), W("lib::Fruit")),
      Bind(Bind(EmptyEnv, W("f"), W("int")), Str(<<"1">>), W("lib::Fruit")),
      Bind(EmptyEnv, W("true"), None) }

MaxArgs == 2

ParamLists == UNION {[1..n -> {Param(t) : t \in ParamTypes}] : n \in 0..MaxArgs}

ArgLists == UNION {[1..n -> ArgUniverse] : n \in 0..MaxArgs}

\* validate_plan is not running.
ValidatorUnused ==
    /\ plan = <<>>
    /\ idx = 0
    /\ outcome = "not started"
    /\ error = NoError
    /\ validated = <<>>

\* pre holds ctx.variables as it was when the call was made.
InitArgs ==
    /\ expected_params \in ParamLists
    /\ actual_args \in ArgLists
    /\ variables \in EnvUniverse
    /\ pre = variables
    /\ checked = NotCalled
    /\ inferred = NotCalled
    /\ ValidatorUnused
    /\ ParseUnused
    /\ SearchUnused
    /\ RunsUnused

\* check_args(expected_params, actual_args, ctx, where)
CheckArgs ==
    /\ checked' = check_args(expected_params, actual_args, variables)
    /\ UNCHANGED <<expected_params, actual_args, inferred, parse_vars, search_vars, runs_vars>>
    /\ UNCHANGED <<plan, idx, variables, outcome, error, validated, pre>>

\* infer_arg_type(arg, ctx) on one of the arguments
InferArgType ==
    /\ \E i \in 1..Len(actual_args) :
          inferred' = [arg |-> actual_args[i],
                       actual |-> infer_arg_type(actual_args[i], variables)]
    /\ UNCHANGED <<expected_params, actual_args, checked, parse_vars, search_vars, runs_vars>>
    /\ UNCHANGED <<plan, idx, variables, outcome, error, validated, pre>>

NextArgs ==
    \/ CheckArgs
    \/ InferArgType

SpecArgs == InitArgs /\ [][NextArgs]_vars

-----------------------------------------------------------------------------
(***************************************************************************)
(* SpecParse: the module-level run, from a plan document to the end of     *)
(* validate_plan.  A document and a step description are Python dicts: a   *)
(* record whose domain is the set of keys present.                         *)
(***************************************************************************)
STEP_CLASSES == {W("create"), W("call"), W("get"), W("assert"), W("expect_fail")}

\* kw[key] for every key of keys, or KeyError: TRUE when one is absent.
KeyError(kw, keys) == \E k \in keys : k \notin DOMAIN kw

\* CreateStep.__init__(**kw)
CreateStep_init(kw) ==
    IF KeyError(kw, {"id", "type"}) THEN Crashed("KeyError")
    ELSE Returned(CreateStep(kw.id, kw.type, GetOr(kw, "args", <<>>)))

\* CallStep.__init__(**kw)
CallStep_init(kw) ==
    IF KeyError(kw, {"target", "method"}) THEN Crashed("KeyError")
    ELSE Returned(CallStep(kw.target, kw.method, GetOr(kw, "args", <<>>),
                           GetOr(kw, "result", None)))

\* GetStep.__init__(**kw)
GetStep_init(kw) ==
    IF KeyError(kw, {"target", "field", "result"}) THEN Crashed("KeyError")
    ELSE Returned(GetStep(kw.target, kw.field, kw.result))

\* AssertStep.__init__(**kw): AssertExpr(**e) takes exactly op, left, right.
AssertStep_init(kw) ==
    IF KeyError(kw, {"expr"}) THEN Crashed("KeyError")
    ELSE IF DOMAIN kw.expr # {"op", "left", "right"} THEN Crashed("TypeError")
    ELSE Returned([op |-> "assert", expr |-> kw.expr])

\* ExpectFailStep.__init__(**kw)
ExpectFailStep_init(kw) ==
    IF KeyError(kw, {"step"}) THEN Crashed("KeyError")
    ELSE Returned(ExpectFailStep(kw.step))

parse_step(d) ==
    IF GetOr(d, "op", None) \notin STEP_CLASSES THEN Raised("UnknownOperation")
    ELSE CASE d.op = W("create") -> CreateStep_init(d)
           [] d.op = W("call")   -> CallStep_init(d)
           [] d.op = W("get")    -> GetStep_init(d)
           [] d.op = W("assert") -> AssertStep_init(d)
           [] OTHER              -> ExpectFailStep_init(d)

\* The step descriptions of the documents: for each op one that parses,
\* and ones that lack a required key, have an unknown op or no op.
RawStepUniverse ==
    { [op |-> W("create"), id |-> W("box"), type |-> W("lib::BoxOfFruits"),
       args |-> <<>>],
      [op |-> W("create"), id |-> W("f"), type |-> W("lib::Fruit")],
      [op |-> W("create"), id |-> W("f")],
      [op |-> W("call"), target |-> W("box"),
       method |-> W("lib::BoxOfFruits::first"), result |-> W("f")],
      [op |-> W("call"), target |-> W("box")],
      [op |-> W("get"), target |-> W("box"), field |-> W("name"),
       result |-> W("n")],
      [op |-> W("get"), target |-> W("box"), field |-> W("name")],
      [op |-> W("assert"),
       expr |-> [op |-> "equals", left |-> Str(<<"$", "f">>),
                 right |-> Num(<<"2">>)]],
      [op |-> W("assert")],
      [op |-> W("assert"), expr |-> [op |-> "equals", left |-> W("f")]],
      [op |-> W("expect_fail"), step |-> 0],
      [op |-> W("expect_fail")],
      [op |-> W("destroy"), id |-> W("box")],
      [id |-> W("box"), type |-> W("lib::BoxOfFruits")] }

MaxDocSteps == 2

RawStepLists == UNION {[1..n -> RawStepUniverse] : n \in 0..MaxDocSteps}

\* The documents: with test and steps, and lacking one or both.
DocUniverse ==
    {[test |-> W("t"), steps |-> ss] : ss \in RawStepLists}
    \cup {[steps |-> ss] : ss \in RawStepLists}
    \cup {[test |-> W("t")], [name |-> W("t")]}

InitParse ==
    /\ data \in DocUniverse
    /\ parsed = 0
    /\ plan = <<>>
    /\ idx = 0
    /\ variables = EmptyEnv
    /\ outcome = "not started"
    /\ error = NoError
    /\ validated = <<>>
    /\ pre = EmptyEnv
    /\ ArgsUnused
    /\ SearchUnused
    /\ RunsUnused

\* parse_test_plan up to its list comprehension
ParseTestPlan ==
    /\ outcome = "not started"
    /\ IF "test" \notin DOMAIN data \/ "steps" \notin DOMAIN data
       THEN /\ outcome' = "error"
            /\ error' = [step_index |-> -1, op |-> "", kind |-> "MalformedPlan"]
       ELSE /\ outcome' = "parsing"
            /\ UNCHANGED error
    /\ UNCHANGED <<plan, idx, variables, validated, pre, data, parsed, args_vars,
                   search_vars, runs_vars>>

\* Mutant of comprehension_step: a description that does not parse is
\* left out of the plan.
comprehension_step_skipping(r) ==
    /\ plan' = IF r.status = "ok" THEN Append(plan, r.value) ELSE plan
    /\ UNCHANGED <<outcome, error>>

\* One element of "[parse_step(s) for s in data[steps]]", r being what
\* parse_step answered: the step joins the list, or the exception leaves
\* parse_test_plan and ends the run.
comprehension_step(r) ==
    CASE r.status = "ok" ->
           /\ plan' = Append(plan, r.value)
           /\ UNCHANGED <<outcome, error>>
      [] r.status = "error" ->
           /\ outcome' = "error"
           /\ error' = [step_index |-> -1, op |-> "", kind |-> r.kind]
           /\ UNCHANGED plan
      [] OTHER ->
           /\ outcome' = "crash"
           /\ error' = [step_index |-> -1, op |-> "", kind |-> r.kind]
           /\ UNCHANGED plan

ParseStep ==
    /\ outcome = "parsing"
    /\ parsed < Len(data.steps)
    /\ parsed' = parsed + 1
    /\ comprehension_step(parse_step(data.steps[parsed + 1]))
    /\ UNCHANGED <<idx, variables, validated, pre, data, args_vars, search_vars,
                   runs_vars>>

\* parse_test_plan returns the TestPlan and validate_plan is called on it:
\* ctx = DSLContext(ast=ast_provider)
ValidatePlanCall ==
    /\ outcome = "parsing"
    /\ parsed = Len(data.steps)
    /\ outcome' = "running"
    /\ idx' = 0
    /\ variables' = EmptyEnv
    /\ UNCHANGED <<plan, error, validated, pre, data, parsed, args_vars,
                   search_vars, runs_vars>>

NextParse ==
    \/ ParseTestPlan
    \/ ParseStep
    \/ ValidatePlanCall
    \/ ValidateCreate
    \/ ValidateCall
    \/ ValidateGet
    \/ ValidateAssert
    \/ ValidateExpectFail
    \/ ValidatePlanReturn

SpecParse == InitParse /\ [][NextParse]_vars

-----------------------------------------------------------------------------
(***************************************************************************)
(* The hybrid search of src/search.py, SearchService.semantic_search.      *)
(* Here a str is the sequence of its characters, so that lower(), the      *)
(* token pattern and the substring test are what they are in Python.  A    *)
(* float is kept exactly, as an integer number of thousandths (a cosine    *)
(* similarity, a name score, a rounded final score) or of                  *)
(* ten-thousandths (the weighted sum before round(score, 3)); the          *)
(* embeddings are integer vectors whose cosines are whole thousandths.     *)
(***************************************************************************)
UpperCase ==
    <<"A", "B", "C", "D", "E", "F", "G", "H", "I", "J", "K", "L", "M",
      "N", "O", "P", "Q", "R", "S", "T", "U", "V", "W", "X", "Y", "Z">>

LowerCase ==
    <<"a", "b", "c", "d", "e", "f", "g", "h", "i", "j", "k", "l", "m",
      "n", "o", "p", "q", "r", "s", "t", "u", "v", "w", "x", "y", "z">>

Letters == {UpperCase[i] : i \in 1..26} \cup {LowerCase[i] : i \in 1..26}

lower_char(c) ==
    IF \E i \in 1..26 : UpperCase[i] = c
    THEN LowerCase[CHOOSE i \in 1..26 : UpperCase[i] = c]
    ELSE c

\* str.lower()
lower(text) == [i \in 1..Len(text) |-> lower_char(text[i])]

\* "t in haystack"
contains(haystack, t) ==
    \E i \in 0..(Len(haystack) - Len(t)) : SubSeq(haystack, i + 1, i + Len(t)) = t

\* The length of the match of [A-Za-z_0-9]* at the start of text.
RECURSIVE word_run(_)
word_run(text) ==
    IF text # <<>> /\ Head(text) \in Letters \cup Digits \cup {"_"}
    THEN 1 + word_run(Tail(text))
    ELSE 0

\* re.findall(r"[A-Za-z_][A-Za-z_0-9]*", text), each match lowered
RECURSIVE tokenize_query(_)
tokenize_query(text) ==
    IF text = <<>> THEN <<>>
    ELSE IF Head(text) \in Letters \cup {"_"}
         THEN <<lower(SubSeq(text, 1, word_run(text)))>>
              \o tokenize_query(SubSeq(text, word_run(text) + 1, Len(text)))
    ELSE tokenize_query(Tail(text))

\* " ".join([symbol.get("name", ""), symbol.get("fqn", "")]).lower()
haystack_of(symbol) ==
    lower(GetOr(symbol, "name", <<>>) \o <<" ">> \o GetOr(symbol, "fqn", <<>>))

\* sum(1 for t in tokens if t in haystack)
matches_in(haystack, tokens) ==
    Cardinality({i \in 1..Len(tokens) : contains(haystack, tokens[i])})

\* matches / len(tokens), in thousandths; 0.0 when nothing matches
match_ratio(matches, tokens) ==
    IF matches = 0 THEN 0 ELSE (matches * 1000) \div Len(tokens)

name_match_score(symbol, tokens) ==
    match_ratio(matches_in(haystack_of(symbol), tokens), tokens)

\* The sums of cosine_similarity's loop over zip(a, b).
RECURSIVE dot_product(_, _)
dot_product(a, b) ==
    IF a = <<>> \/ b = <<>> THEN 0
    ELSE Head(a) * Head(b) + dot_product(Tail(a), Tail(b))

\* math.sqrt of a perfect square
sqrt(n) == CHOOSE r \in 0..n : r * r = n

\* dot / math.sqrt(na * nb) in thousandths, 0.0 for a zero vector
cosine_of(dot, na, nb) ==
    IF na = 0 \/ nb = 0 THEN 0 ELSE (dot * 1000) \div sqrt(na * nb)

\* The part of vector a that zip(a, b) pairs with b.
zipped(a, b) == SubSeq(a, 1, IF Len(a) < Len(b) THEN Len(a) ELSE Len(b))

cosine_similarity(a, b) ==
    cosine_of(dot_product(a, b),
              dot_product(zipped(a, b), zipped(a, b)),
              dot_product(zipped(b, a), zipped(b, a)))

\* seq[:k]
head_slice(seq, k) ==
    IF k >= 0 THEN SubSeq(seq, 1, IF k < Len(seq) THEN k ELSE Len(seq))
    ELSE SubSeq(seq, 1, IF Len(seq) + k > 0 THEN Len(seq) + k ELSE 0)

\* list.sort(key=lambda x: x["score"], reverse=True): descending and
\* stable, elements of equal score keep the order they had.
RECURSIVE insert_desc(_, _)
insert_desc(sorted, x) ==
    IF sorted = <<>> THEN <<x>>
    ELSE IF Head(sorted).score >= x.score
         THEN <<Head(sorted)>> \o insert_desc(Tail(sorted), x)
    ELSE <<x>> \o sorted

RECURSIVE sort_desc(_)
sort_desc(seq) ==
    IF seq = <<>> THEN <<>>
    ELSE insert_desc(sort_desc(SubSeq(seq, 1, Len(seq) - 1)), seq[Len(seq)])

\* The list "scored" of raw_semantic_search, in the order of the store.
scored_items(q, store) ==
    [i \in 1..Len(store) |->
        [id    |-> store[i].id,
         kind  |-> store[i].kind,
         fqn   |-> store[i].fqn,
         score |-> cosine_similarity(q, store[i].embedding)]]

raw_semantic_search(q, store, k) ==
    head_slice(sort_desc(scored_items(q, store)), k)

(***************************************************************************)
(* A dict keyed by fqn is the sequence of its values in insertion order,   *)
(* each value carrying its key in the field fqn.                           *)
(***************************************************************************)
has_key(d, fqn) == \E i \in 1..Len(d) : d[i].fqn = fqn

position_of(d, fqn) == CHOOSE i \in 1..Len(d) : d[i].fqn = fqn

\* d.setdefault(value["fqn"], value)
setdefault(d, value) == IF has_key(d, value.fqn) THEN d ELSE Append(d, value)

\* Mutant of set_item: the value first stored under a key is kept.
set_item_keeping_first(d, value) == setdefault(d, value)

\* d[value["fqn"]] = value
set_item(d, value) ==
    IF has_key(d, value.fqn)
    THEN [d EXCEPT ![position_of(d, value.fqn)] = value]
    ELSE Append(d, value)

\* {hit["fqn"]: hit["score"] for hit in semantic_hits}
RECURSIVE semantic_map_of(_)
semantic_map_of(semantic_hits) ==
    IF semantic_hits = <<>> THEN <<>>
    ELSE set_item(semantic_map_of(SubSeq(semantic_hits, 1, Len(semantic_hits) - 1)),
                  [fqn   |-> semantic_hits[Len(semantic_hits)].fqn,
                   score |-> semantic_hits[Len(semantic_hits)].score])

\* Mutant of with_name: the latest occurrence's score replaces the one
\* kept.
with_name_overwriting(results, fqn, score) ==
    [results EXCEPT ![position_of(results, fqn)].name = score]

\* results[fqn][key] = value for the fields name and semantic
with_name(results, fqn, score) ==
    [results EXCEPT ![position_of(results, fqn)].name =
        IF @ >= score THEN @ ELSE score]

with_semantic(results, fqn, sem_score) ==
    [results EXCEPT ![position_of(results, fqn)].semantic = sem_score]

new_result(fqn, kind) == [fqn |-> fqn, kind |-> kind, semantic |-> 0, name |-> 0]

\* The body of the name-based loops for one symbol whose score is known.
name_based_symbol(results, symbol, score) ==
    IF score > 0
    THEN with_name(setdefault(results, new_result(symbol.fqn, symbol.kind)),
                   symbol.fqn, score)
    ELSE results

\* The name-based loops over the symbols in the order they are visited:
\* per file its classes, each followed by its methods, then its functions.
RECURSIVE name_based(_, _)
name_based(symbols, tokens) ==
    IF symbols = <<>> THEN <<>>
    ELSE name_based_symbol(name_based(SubSeq(symbols, 1, Len(symbols) - 1), tokens),
                           symbols[Len(symbols)],
                           name_match_score(symbols[Len(symbols)], tokens))

\* "for fqn, sem_score in semantic_map.items()" from results on
RECURSIVE merge_semantic(_, _)
merge_semantic(results, semantic_map) ==
    IF semantic_map = <<>> THEN results
    ELSE merge_semantic(
            with_semantic(setdefault(results, new_result(Head(semantic_map).fqn, "unknown")),
                          Head(semantic_map).fqn, Head(semantic_map).score),
            Tail(semantic_map))

\* round(score, 3) of a number of ten-thousandths, in thousandths: to the
\* nearest, a tie to the even one.
round_3(score) ==
    LET q == score \div 10
        r == score % 10
    IN  IF r < 5 THEN q
        ELSE IF r > 5 THEN q + 1
        ELSE IF q % 2 = 0 THEN q ELSE q + 1

\* The semantic channel alone.
weighted_semantic_only(r) == 7 * r.semantic

\* semantic_weight * r["semantic"] + name_weight * r["name"], in
\* ten-thousandths
weighted(r) == 7 * r.semantic + 3 * r.name

sources_of(r) ==
    (IF r.semantic > 0 THEN <<"semantic">> ELSE <<>>)
    \o (IF r.name > 0 THEN <<"name">> ELSE <<>>)

\* The "final score" loop over results.values()
RECURSIVE final_of(_)
final_of(results) ==
    IF results = <<>> THEN <<>>
    ELSE (IF weighted(Head(results)) = 0 THEN <<>>
          ELSE << [fqn     |-> Head(results).fqn,
                   kind    |-> Head(results).kind,
                   score   |-> round_3(weighted(Head(results))),
                   sources |-> sources_of(Head(results))] >>)
         \o final_of(Tail(results))

\* Mutant of ranked: the list is cut to k before it is sorted.
ranked_cut_first(final, k) == sort_desc(head_slice(final, k))

\* final.sort(key=lambda x: x["score"], reverse=True); return final[:top_k]
ranked(final, k) == head_slice(sort_desc(final), k)

\* semantic_search from the answer of raw_semantic_search on
fused_search(tokens, semantic_hits, files, k) ==
    ranked(final_of(merge_semantic(name_based(SymbolEntries(files), tokens),
                                   semantic_map_of(semantic_hits))),
           k)

\* What semantic_search(text, k) returns over the index files and the
\* embedding store when the provider answers the query embedding q.
semantic_search(text, k, files, store, q) ==
    fused_search(tokenize_query(text), raw_semantic_search(q, store, k * 2),
                 files, k)

-----------------------------------------------------------------------------
(***************************************************************************)
(* SpecSearch: one semantic_search call on every query, top_k, file order  *)
(* and embedding store of the bounds, the provider answering an embedding  *)
(* or failing.                                                             *)
(***************************************************************************)
LibPrefix == <<"l", "i", "b", ":", ":">>

BoxOfFruitsName == <<"B", "o", "x", "O", "f", "F", "r", "u", "i", "t", "s">>

AddName == <<"a", "d", "d">>

ShelfName == <<"S", "h", "e", "l", "f">>

MakeFruitName == <<"m", "a", "k", "e", "_", "f", "r", "u", "i", "t">>

GoneName == <<"G", "o", "n", "e">>

BoxFqn == LibPrefix \o BoxOfFruitsName

AddFqn == BoxFqn \o <<":", ":">> \o AddName

ShelfFqn == LibPrefix \o ShelfName

MakeFruitFqn == LibPrefix \o MakeFruitName

\* The fqn of a symbol that is no longer in the index.
GoneFqn == LibPrefix \o GoneName

\* Two files of ast.json as the indexer writes them.
BoxFile ==
    [classes |-> << [kind |-> "class_decl", name |-> BoxOfFruitsName, fqn |-> BoxFqn,
                     methods |-> << [kind |-> "cxx_method", name |-> AddName,
                                     fqn |-> AddFqn] >>] >>,
     functions |-> <<>>]

ShelfFile ==
    [classes |-> << [kind |-> "struct_decl", name |-> ShelfName, fqn |-> ShelfFqn,
                     methods |-> <<>>] >>,
     functions |-> << [kind |-> "function_decl", name |-> MakeFruitName,
                       fqn |-> MakeFruitFqn] >>]

\* ctx.ast_index.values() in either order of the files.
IndexUniverse == { <<BoxFile, ShelfFile>>, <<ShelfFile, BoxFile>> }

\* The queries: two words, one word in capitals, and one without a word.
QueryUniverse ==
    { <<"f", "r", "u", "i", "t", " ", "b", "o", "x">>,
      <<"L", "I", "B">>,
      <<"4", "2", " ", "!">> }

EmbeddingRecord(id, kind, fqn, embedding) ==
    [id |-> id, kind |-> kind, fqn |-> fqn, embedding |-> embedding]

\* The records of embeddings.json a store is made of; with the query
\* embedding <<3, 4>> their similarities are 1.0, -1.0, 1.0, 0.352, -1.0
\* and 0.0.
RecordUniverse ==
    { EmbeddingRecord("b1", "class_decl", BoxFqn, <<3, 4>>),
      EmbeddingRecord("b2", "class_decl", BoxFqn, <<-3, -4>>),
      EmbeddingRecord("s1", "struct_decl", ShelfFqn, <<3, 4>>),
      EmbeddingRecord("s2", "struct_decl", ShelfFqn, <<24, -7>>),
      EmbeddingRecord("g1", "class_decl", GoneFqn, <<-3, -4>>),
      EmbeddingRecord("m1", "function_decl", MakeFruitFqn, <<-4, 3>>) }

MaxStore == 3

MaxTopK == 2

\* The stores: up to MaxStore records, no record twice.
StoreUniverse ==
    UNION { {st \in [1..n -> RecordUniverse] :
                \A i, j \in 1..n : st[i] = st[j] => i = j} : n \in 0..MaxStore }

\* The embeddings the provider may answer, one of them the zero vector.
QueryEmbeddings == { <<3, 4>>, <<0, 0>> }

InitSearch ==
    /\ query \in QueryUniverse
    /\ top_k \in 0..MaxTopK
    /\ ast_index \in IndexUniverse
    /\ embeddings \in StoreUniverse
    /\ search_pc = "idle"
    /\ query_embedding = <<>>
    /\ hits = <<>>
    /\ ValidatorUnused
    /\ variables = EmptyEnv
    /\ pre = EmptyEnv
    /\ ArgsUnused
    /\ ParseUnused
    /\ RunsUnused

\* semantic_search is called and runs up to the await of embed_query.
SemanticSearchCall ==
    /\ search_pc = "idle"
    /\ search_pc' = "awaiting"
    /\ UNCHANGED <<query, top_k, ast_index, embeddings, query_embedding, hits>>
    /\ UNCHANGED <<plan, idx, variables, outcome, error, validated, pre>>
    /\ UNCHANGED <<args_vars, parse_vars, runs_vars>>

\* embed_query returns e and semantic_search runs to its return.
resume_with(e) ==
    hits' = semantic_search(query, top_k, ast_index, embeddings, e)

\* openai_client.embeddings.create(...) answers.
EmbeddingsCreateReturns ==
    /\ search_pc = "awaiting"
    /\ \E e \in QueryEmbeddings :
          /\ query_embedding' = e
          /\ resume_with(e)
    /\ search_pc' = "returned"
    /\ UNCHANGED <<query, top_k, ast_index, embeddings>>
    /\ UNCHANGED <<plan, idx, variables, outcome, error, validated, pre>>
    /\ UNCHANGED <<args_vars, parse_vars, runs_vars>>

\* openai_client.embeddings.create(...) raises: nothing between it and the
\* caller of semantic_search catches the exception.
EmbeddingsCreateRaises ==
    /\ search_pc = "awaiting"
    /\ search_pc' = "raised"
    /\ UNCHANGED <<query, top_k, ast_index, embeddings, query_embedding, hits>>
    /\ UNCHANGED <<plan, idx, variables, outcome, error, validated, pre>>
    /\ UNCHANGED <<args_vars, parse_vars, runs_vars>>

NextSearch ==
    \/ SemanticSearchCall
    \/ EmbeddingsCreateReturns
    \/ EmbeddingsCreateRaises

SpecSearch == InitSearch /\ [][NextSearch]_vars

-----------------------------------------------------------------------------
(***************************************************************************)
(* SpecSearchRepeats: semantic_search on an index in which a fqn occurs    *)
(* twice, in two files and with different names, so that its occurrences   *)
(* have different name scores; the stores are those of SpecSearch, where   *)
(* a fqn may have several records.                                         *)
(***************************************************************************)
\* A file that declares lib::make_fruit again, under another name.
RedeclFile ==
    [classes |-> <<>>,
     functions |-> << [kind |-> "function_template", name |-> BoxOfFruitsName,
                       fqn |-> MakeFruitFqn] >>]

RepeatIndexUniverse == { <<ShelfFile, RedeclFile>>, <<RedeclFile, ShelfFile>> }

InitSearchRepeats ==
    /\ query \in QueryUniverse
    /\ top_k \in 0..MaxTopK
    /\ ast_index \in RepeatIndexUniverse
    /\ embeddings \in StoreUniverse
    /\ search_pc = "idle"
    /\ query_embedding = <<>>
    /\ hits = <<>>
    /\ ValidatorUnused
    /\ variables = EmptyEnv
    /\ pre = EmptyEnv
    /\ ArgsUnused
    /\ ParseUnused
    /\ RunsUnused

SpecSearchRepeats == InitSearchRepeats /\ [][NextSearch]_vars

-----------------------------------------------------------------------------
(***************************************************************************)
(* SpecRuns: two validate_plan calls on the same provider, their loop      *)
(* iterations interleaved in every way.  An iteration is one step: it      *)
(* reads the provider and reads and writes the ctx of its own call only.   *)
(***************************************************************************)
Runs == {1, 2}

OtherRun(r) == 3 - r

RunStepUniverse ==
    { CreateStep(W("f"), W("lib::Fruit"), <<W("apple")>>),
      CreateStep(W("box"), W("lib::BoxOfFruits"), <<>>),
      CallStep(W("box"), W("lib::BoxOfFruits::add"), <<W("f")>>, None),
      GetStep(W("f"), W("name"), W("n")) }

MaxRunSteps == 2

RunPlans == UNION {[1..n -> RunStepUniverse] : n \in 0..MaxRunSteps}

\* A call that has not been made yet.
NotStarted(steps) ==
    [plan |-> steps, idx |-> 0, ctx |-> 0, outcome |-> "not called",
     error |-> NoError, overlapped |-> FALSE]

InitRuns ==
    /\ runs \in {<<NotStarted(p1), NotStarted(p2)>> : p1 \in RunPlans, p2 \in RunPlans}
    /\ contexts = <<>>
    /\ index = AstIndex
    /\ ValidatorUnused
    /\ variables = EmptyEnv
    /\ pre = EmptyEnv
    /\ ArgsUnused
    /\ ParseUnused
    /\ SearchUnused

\* Mutant of new_context: one DSLContext for every call.
new_context_shared(r) == 1

\* DSLContext(ast=ast_provider): an object of the call's own.
new_context(r) == r

\* DSLContext.__init__: self.variables = {}
allocate(heap, id) ==
    [i \in DOMAIN heap \cup {id} |-> IF i = id THEN EmptyEnv ELSE heap[i]]

single_run_vars == <<plan, idx, variables, outcome, error, validated, pre>>

\* validate_plan(plan, provider) is called: ctx = DSLContext(ast=ast_provider)
RunCall(r) ==
    /\ runs[r].outcome = "not called"
    /\ runs' = [runs EXCEPT ![r].ctx = new_context(r), ![r].outcome = "running"]
    /\ contexts' = allocate(contexts, new_context(r))
    /\ UNCHANGED <<index, single_run_vars, args_vars, parse_vars, search_vars>>

\* The try/except of validate_plan around validate_step, on the call's own
\* idx: step_boundary for one of two calls.
run_boundary(run, res) ==
    CASE res.status = "ok" -> [run EXCEPT !.idx = run.idx + 1]
      [] res.status = "error" ->
           [run EXCEPT !.outcome = "error",
                       !.error = [step_index |-> run.idx,
                                  op |-> run.plan[run.idx + 1].op,
                                  kind |-> res.kind]]
      [] OTHER ->
           [run EXCEPT !.outcome = "crash",
                       !.error = [step_index |-> -1, op |-> "", kind |-> res.kind]]

\* The call is in its loop and has validated a step.
mid_call(run) == run.outcome = "running" /\ run.idx >= 1

run_iteration(r, res) ==
    /\ runs' = [runs EXCEPT ![r] =
                  [run_boundary(runs[r], res) EXCEPT
                      !.overlapped = @ \/ mid_call(runs[OtherRun(r)])]]
    /\ contexts' = IF res.status = "ok"
                   THEN [contexts EXCEPT ![runs[r].ctx] = res.value]
                   ELSE contexts

\* One iteration of the loop of call r: validate_step(step, ctx)
RunIteration(r) ==
    /\ runs[r].outcome = "running"
    /\ runs[r].idx < Len(runs[r].plan)
    /\ run_iteration(r, validate_step(runs[r].plan[runs[r].idx + 1],
                                      contexts[runs[r].ctx]))
    /\ UNCHANGED <<index, single_run_vars, args_vars, parse_vars, search_vars>>

\* The loop of call r is exhausted: validate_plan returns.
RunReturn(r) ==
    /\ runs[r].outcome = "running"
    /\ runs[r].idx = Len(runs[r].plan)
    /\ runs' = [runs EXCEPT ![r].outcome = "ok"]
    /\ UNCHANGED <<contexts, index, single_run_vars, args_vars, parse_vars,
                   search_vars>>

NextRuns ==
    \/ \E r \in Runs : RunCall(r)
    \/ \E r \in Runs : RunIteration(r)
    \/ \E r \in Runs : RunReturn(r)

SpecRuns == InitRuns /\ [][NextRuns]_vars

-----------------------------------------------------------------------------
(***************************************************************************)
(* Vocabulary of the properties.  The index is read here directly, file by *)
(* file, and not through the provider, so that a property compares what    *)
(* the validator did with what the index declares.                         *)
(***************************************************************************)
IndexedClasses ==
    UNION { {AstIndex[i].classes[j] : j \in 1..Len(AstIndex[i].classes)} :
            i \in 1..Len(AstIndex) }

IsIndexedClass(t) == \E c \in IndexedClasses : c.fqn = t

ClassNamed(t) == CHOOSE c \in IndexedClasses : c.fqn = t

\* The methods class t declares under the name fqn, in declaration order.
DeclaredMethods(t, fqn) ==
    IF IsIndexedClass(t)
    THEN SelectSeq(ClassNamed(t).methods, LAMBDA m : m.fqn = fqn)
    ELSE <<>>

DeclaredConstructors(t) ==
    SelectSeq(ClassNamed(t).methods, LAMBDA m : m.kind = "constructor")

DeclaredFields(t) ==
    IF "fields" \in DOMAIN ClassNamed(t) THEN ClassNamed(t).fields ELSE <<>>

HasField(t, name) ==
    \E i \in 1..Len(DeclaredFields(t)) : DeclaredFields(t)[i].name = name

FieldType(t, name) ==
    LET fs == DeclaredFields(t)
    IN  fs[CHOOSE i \in 1..Len(fs) : fs[i].name = name].type

\* The arguments are as many as the parameters and each one's inferred
\* type is the parameter's type.
ArgsHaveTypes(params, args, env) ==
    /\ Len(params) = Len(args)
    /\ \A i \in 1..Len(params) :
          /\ infer_arg_type(args[i], env).status = "ok"
          /\ infer_arg_type(args[i], env).value = params[i].type

\* A Call names a result when it carries a non-empty one.
NamesResult(step) == step.result # None /\ step.result # Str(<<>>)

\* The identifiers a step binds when it succeeds.
Binders(step) ==
    CASE step.op = "create" -> {step.id}
      [] step.op = "call"   -> IF NamesResult(step) THEN {step.result} ELSE {}
      [] step.op = "get"    -> {step.result}
      [] OTHER              -> {}

\* The identifiers bound by the steps at positions 1..n of the plan.
BindersUpTo(n) == UNION {Binders(plan[j]) : j \in 1..n}

\* The latest step validate_step was called on, and how that call ended.
HasLast == Len(validated) > 0

LastStep == plan[validated[Len(validated)] + 1]

LastOk == outcome \in {"running", "ok"}

LastFailedWith(kind) == outcome = "error" /\ error.kind = kind

\* The outcome of validating the steps 1..k one after the other, each in
\* the environment its predecessors left, up to the first that fails.
ThenStep(p, step) == IF p.status # "ok" THEN p ELSE validate_step(step, p.value)

RECURSIVE OutcomeOfPrefix(_)
OutcomeOfPrefix(k) ==
    IF k = 0 THEN Returned(EmptyEnv)
    ELSE ThenStep(OutcomeOfPrefix(k - 1), plan[k])

FailingPositions == {k \in 1..Len(plan) : OutcomeOfPrefix(k).status # "ok"}

FirstFailing == CHOOSE k \in FailingPositions : \A j \in FailingPositions : k <= j

-----------------------------------------------------------------------------
\* C1: validate_plan validates the steps in index order, each once, and
\* stops at the first failing step: when position i is the first whose
\* step fails, validate_step is never called on a later step, no binding
\* of a later step enters the environment, and the run does not succeed.
C1_InOrderFailFast ==
    /\ validated = [k \in 1..Len(validated) |-> k - 1]
    /\ IF FailingPositions = {}
       THEN outcome \in {"running", "ok"}
       ELSE /\ Len(validated) <= FirstFailing
            /\ DOMAIN variables \subseteq BindersUpTo(FirstFailing - 1)
            /\ outcome # "ok"
            /\ outcome \in {"error", "crash"} => Len(validated) = FirstFailing

\* A run that failed at a step that has steps before and after it, the
\* next of which would have bound a variable.
C1_Witness ==
    /\ outcome = "error"
    /\ 0 < idx /\ idx + 1 < Len(plan)
    /\ plan[idx + 2] = CreateStep(W("box"), W("lib::BoxOfFruits"), <<>>)
    /\ W("box") \notin DOMAIN variables

\* C2: every failure of a step leaves validate_plan as the validation
\* error annotated with that step's 0-based index and its op.
C2_FailuresAnnotated ==
    outcome \in {"error", "crash"} =>
        /\ outcome = "error"
        /\ error.step_index = idx
        /\ error.op = plan[idx + 1].op

\* C3: the environment is empty before the first step, and an identifier
\* bound before a step is still bound after it.
C3_EnvironmentGrows ==
    /\ validated = <<>> => variables = EmptyEnv
    /\ DOMAIN pre \subseteq DOMAIN variables

\* A step has added a binding to an environment that already held one.
C3_Witness ==
    /\ DOMAIN pre # {}
    /\ DOMAIN pre # DOMAIN variables

-----------------------------------------------------------------------------
(***************************************************************************)
(* The environment the specification gives a plan whose steps all match    *)
(* the index: Create binds id to its type, a Call that names a result      *)
(* binds it to the return type of the method it resolves to, Get binds     *)
(* result to the declared type of the field.                               *)
(***************************************************************************)
StepBinding(step, env) ==
    CASE step.op = "create" -> Bind(env, step.id, step.type)
      [] step.op = "call" /\ NamesResult(step) ->
           Bind(env, step.result,
                DeclaredMethods(env[step.target], step.method)[1].return_type)
      [] step.op = "get" ->
           Bind(env, step.result, FieldType(env[step.target], step.field))
      [] OTHER -> env

\* Whether a step matches the indexed API in environment env: a known
\* type with a matching constructor, a bound target with the method or the
\* field, argument types that match exactly, bound $-references, a step
\* index that is not negative.
IsReference(side) == side.kind = "str" /\ startswith_dollar(side.chars)

Referenced(side) == Str(Tail(side.chars))

MatchesIndex(step, env) ==
    CASE step.op = "create" ->
           /\ IsIndexedClass(step.type)
           /\ \E i \in 1..Len(DeclaredConstructors(step.type)) :
                 ArgsHaveTypes(DeclaredConstructors(step.type)[i].params,
                               step.args, env)
      [] step.op = "call" ->
           /\ step.target \in DOMAIN env
           /\ DeclaredMethods(env[step.target], step.method) # <<>>
           /\ ArgsHaveTypes(DeclaredMethods(env[step.target], step.method)[1].params,
                            step.args, env)
      [] step.op = "get" ->
           /\ step.target \in DOMAIN env
           /\ IsIndexedClass(env[step.target])
           /\ HasField(env[step.target], step.field)
      [] step.op = "assert" ->
           /\ IsReference(step.expr.left) => Referenced(step.expr.left) \in DOMAIN env
           /\ IsReference(step.expr.right) => Referenced(step.expr.right) \in DOMAIN env
      [] OTHER -> step.step >= 0

\* The steps 1..k all match, each in the environment of its predecessors;
\* the value is then that environment.
ThenMatching(p, step) ==
    IF p.status = "ok" /\ MatchesIndex(step, p.value)
    THEN Returned(StepBinding(step, p.value))
    ELSE Raised("Mismatch")

RECURSIVE MatchingPrefix(_)
MatchingPrefix(k) ==
    IF k = 0 THEN Returned(EmptyEnv)
    ELSE ThenMatching(MatchingPrefix(k - 1), plan[k])

AllStepsMatch == MatchingPrefix(Len(plan)).status = "ok"

\* C4: a plan whose steps all match the indexed API validates, and the
\* variables of its final environment are exactly the ids of its Create
\* steps, the results its Call steps name and the results of its Get steps.
C4_MatchingPlanValidates ==
    AllStepsMatch =>
        /\ outcome \in {"running", "ok"}
        /\ outcome = "ok" => DOMAIN variables = BindersUpTo(Len(plan))

\* C5: Create on a type that is no indexed class fails UnknownType; on an
\* indexed class it succeeds, binding id to the type, iff some constructor
\* has as many parameters as the step has args with every inferred arg type
\* equal to the parameter type, and fails NoMatchingConstructor otherwise.
C5_CreateResolution ==
    (HasLast /\ LastStep.op = "create") =>
        IF ~IsIndexedClass(LastStep.type) THEN LastFailedWith("UnknownType")
        ELSE IF \E i \in 1..Len(DeclaredConstructors(LastStep.type)) :
                   ArgsHaveTypes(DeclaredConstructors(LastStep.type)[i].params,
                                 LastStep.args, pre)
             THEN LastOk /\ variables = Bind(pre, LastStep.id, LastStep.type)
        ELSE LastFailedWith("NoMatchingConstructor")

\* C6: a Call fails UnknownVariable exactly when its target is not bound;
\* with the target bound it fails MethodNotFound exactly when the bound
\* type declares no method of that FQN; the arguments play no part.
C6_CallTargetThenMethod ==
    (HasLast /\ LastStep.op = "call") =>
        /\ LastFailedWith("UnknownVariable") <=> LastStep.target \notin DOMAIN pre
        /\ LastStep.target \in DOMAIN pre =>
              (LastFailedWith("MethodNotFound") <=>
                   DeclaredMethods(pre[LastStep.target], LastStep.method) = <<>>)

\* C7: a successful Call that names a result binds it to the declared
\* return type of the method it resolved to, the result being a bound
\* variable from then on; one that names none leaves the environment as
\* it was.
C7_CallBindsReturnType ==
    (HasLast /\ LastStep.op = "call" /\ LastOk) =>
        IF NamesResult(LastStep)
        THEN /\ LastStep.result \in DOMAIN variables
             /\ variables =
                  Bind(pre, LastStep.result,
                       DeclaredMethods(pre[LastStep.target],
                                       LastStep.method)[1].return_type)
        ELSE variables = pre

\* A Call bound its result to a class type other than its target's, next
\* to bindings that were there before.
C7_Witness ==
    /\ HasLast /\ LastStep.op = "call" /\ LastOk
    /\ NamesResult(LastStep)
    /\ variables[LastStep.result] = W("lib::Fruit")
    /\ pre[LastStep.target] = W("lib::BoxOfFruits")
    /\ LastStep.result \notin DOMAIN pre

\* C8: a Get whose target is bound to a class that has the field succeeds
\* and leaves result bound, to the field's declared type, in the
\* environment Create and Call use.
C8_GetBindsField ==
    ( /\ HasLast /\ LastStep.op = "get"
      /\ LastStep.target \in DOMAIN pre
      /\ IsIndexedClass(pre[LastStep.target])
      /\ HasField(pre[LastStep.target], LastStep.field) ) =>
        /\ LastOk
        /\ LastStep.result \in DOMAIN variables
        /\ variables[LastStep.result] = FieldType(pre[LastStep.target], LastStep.field)

\* C9: a Get fails UnknownVariable when its target is unbound, else
\* UnknownType when the bound type is no indexed class, else FieldNotFound
\* when the class's field list (empty when absent) lacks the field.
C9_GetFailures ==
    (HasLast /\ LastStep.op = "get") =>
        IF LastStep.target \notin DOMAIN pre THEN LastFailedWith("UnknownVariable")
        ELSE IF ~IsIndexedClass(pre[LastStep.target]) THEN LastFailedWith("UnknownType")
        ELSE ~HasField(pre[LastStep.target], LastStep.field) =>
                 LastFailedWith("FieldNotFound")

\* A Get on a target bound to a class that has no field list.
C9_Witness ==
    /\ HasLast /\ LastStep.op = "get"
    /\ LastStep.target \in DOMAIN pre
    /\ IsIndexedClass(pre[LastStep.target])
    /\ "fields" \notin DOMAIN ClassNamed(pre[LastStep.target])
    /\ LastFailedWith("FieldNotFound")

\* C10: an Assert fails, with UnknownReference, iff its left or its right
\* operand is a string that starts with "$" and whose remainder is not
\* bound; any other operand is not looked at, and a passing Assert leaves
\* the environment as it was.
C10_AssertReferences ==
    (HasLast /\ LastStep.op = "assert") =>
        LET dangling ==
              \/ /\ IsReference(LastStep.expr.left)
                 /\ Referenced(LastStep.expr.left) \notin DOMAIN pre
              \/ /\ IsReference(LastStep.expr.right)
                 /\ Referenced(LastStep.expr.right) \notin DOMAIN pre
        IN  /\ dangling => LastFailedWith("UnknownReference")
            /\ ~dangling => LastOk
            /\ variables = pre

\* An Assert passed with a bound $-reference on one side and, on the
\* other, a number.
C10_Witness ==
    /\ HasLast /\ LastStep.op = "assert" /\ LastOk
    /\ IsReference(LastStep.expr.left)
    /\ Referenced(LastStep.expr.left) \in DOMAIN pre
    /\ LastStep.expr.right.kind = "num"

-----------------------------------------------------------------------------
(***************************************************************************)
(* The type the specification's inference rules give an argument token,    *)
(* stated on the token's characters: a bound variable's type; int for one  *)
(* or more digits; double for digits with exactly one decimal point; bool  *)
(* for true and false; the string literal type for anything else.          *)
(***************************************************************************)
AllDigits(arg) ==
    /\ arg.kind = "str"
    /\ arg.chars # <<>>
    /\ \A i \in 1..Len(arg.chars) : arg.chars[i] \in Digits

DigitsWithOnePoint(arg) ==
    /\ arg.kind = "str"
    /\ Cardinality({i \in 1..Len(arg.chars) : arg.chars[i] = "."}) = 1
    /\ \E i \in 1..Len(arg.chars) : arg.chars[i] \in Digits
    /\ \A i \in 1..Len(arg.chars) : arg.chars[i] \in Digits \cup {"."}

TokenType(arg, env) ==
    IF arg \in DOMAIN env THEN env[arg]
    ELSE IF AllDigits(arg) THEN W("int")
    ELSE IF DigitsWithOnePoint(arg) THEN W("double")
    ELSE IF arg \in {W("true"), W("false")} THEN W("bool")
    ELSE W("std::string")

\* The positions at which the argument's type is not the parameter's.
MismatchedPositions ==
    {i \in 1..Len(expected_params) :
        TokenType(actual_args[i], variables) # expected_params[i].type}

FirstMismatch ==
    CHOOSE i \in MismatchedPositions : \A j \in MismatchedPositions : i <= j

\* C11: check_args fails ArityMismatch when the parameter and argument
\* lists differ in length, whatever the arguments are; with equal lengths it
\* fails TypeMismatch at the first position whose inferred argument type is
\* not the declared parameter type, and succeeds when there is none.
C11_ArityThenFirstMismatch ==
    checked # NotCalled =>
        IF Len(expected_params) # Len(actual_args)
        THEN checked = Raised("ArityMismatch")
        ELSE IF MismatchedPositions # {}
             THEN checked = RaisedAt("TypeMismatch", FirstMismatch - 1)
        ELSE checked.status = "ok"

\* C12: infer_arg_type yields, for every argument and environment, the
\* type of the first rule that applies (bound variable, int, double, bool,
\* string literal), and leaves the environment as it was.
C12_InferencePrecedence ==
    inferred # NotCalled =>
        /\ inferred.actual.status = "ok"
        /\ inferred.actual.value = TokenType(inferred.arg, variables)
        /\ variables = pre

-----------------------------------------------------------------------------
(***************************************************************************)
(* Vocabulary of the parser's properties: the ops the specification        *)
(* recognises and the keys each variant cannot do without (args and        *)
(* result may be left out of a description).                               *)
(***************************************************************************)
RecognisedOps == {"create", "call", "get", "assert", "expect_fail"}

HasRecognisedOp(d) ==
    /\ "op" \in DOMAIN d
    /\ \E o \in RecognisedOps : d.op = W(o)

RequiredKeys(d) ==
    CASE d.op = W("create") -> {"id", "type"}
      [] d.op = W("call")   -> {"target", "method"}
      [] d.op = W("get")    -> {"target", "field", "result"}
      [] d.op = W("assert") -> {"expr"}
      [] OTHER              -> {"step"}

LacksRequiredKey(d) == ~(RequiredKeys(d) \subseteq DOMAIN d)

\* The description the latest parse_step call was given.
LastParsed == data.steps[parsed]

ParseFailedWith(kind) == outcome = "error" /\ error.kind = kind

\* C13: parse_step fails UnknownOperation on a description whose op is
\* absent or none of the five, and fails with the parser's own MissingField
\* error on a description of a recognised op that lacks a required key.
C13_ParseStepErrors ==
    parsed > 0 =>
        /\ ~HasRecognisedOp(LastParsed) => ParseFailedWith("UnknownOperation")
        /\ (HasRecognisedOp(LastParsed) /\ LacksRequiredKey(LastParsed)) =>
              ParseFailedWith("MissingField")

\* Every description of the document has a recognised op, its required
\* keys and, in an assert, an expression of op, left and right.
WellFormedStep(d) ==
    /\ HasRecognisedOp(d)
    /\ ~LacksRequiredKey(d)
    /\ d.op = W("assert") => DOMAIN d.expr = {"op", "left", "right"}

WellFormedDocument ==
    /\ {"test", "steps"} \subseteq DOMAIN data
    /\ \A i \in 1..Len(data.steps) : WellFormedStep(data.steps[i])

\* C14: parsing a document without test or without steps fails
\* MalformedPlan, and no step is validated and no variable bound unless the
\* document and every one of its steps parsed: validation starts from the
\* whole parsed plan or not at all.
C14_ParseBeforeValidate ==
    /\ (outcome # "not started" /\ ~({"test", "steps"} \subseteq DOMAIN data)) =>
          ParseFailedWith("MalformedPlan")
    /\ (validated # <<>> \/ variables # EmptyEnv \/ outcome \in {"running", "ok"}) =>
          /\ WellFormedDocument
          /\ parsed = Len(data.steps)
          /\ Len(plan) = Len(data.steps)

\* A two-step plan was parsed whole and its second step then validated
\* with a variable bound.
C14_Witness ==
    /\ parsed = 2
    /\ Len(validated) = 2
    /\ variables # EmptyEnv

-----------------------------------------------------------------------------
(***************************************************************************)
(* Vocabulary of the search properties, stated on sets and not on the      *)
(* loops of semantic_search.  Scores are in thousandths, a fused score in  *)
(* ten-thousandths before it is rounded.                                   *)
(***************************************************************************)
SearchReturned == search_pc = "returned"

QueryTokens == tokenize_query(query)

ElementsOf(seq) == {seq[i] : i \in 1..Len(seq)}

\* Every symbol of the index: the classes, their methods, the functions.
IndexedSymbols ==
    UNION { ElementsOf(file.classes) \cup ElementsOf(file.functions)
            \cup UNION {ElementsOf(cls.methods) : cls \in ElementsOf(file.classes)} :
            file \in ElementsOf(ast_index) }

MaxOf(S) == CHOOSE x \in S : \A y \in S : y <= x

MinOf(S) == CHOOSE x \in S : \A y \in S : x <= y

\* The lexical channel's score of an fqn: the best name score of an
\* indexed symbol of that fqn, 0 when the channel does not touch it.
LexicalScore(fqn) ==
    MaxOf({0} \cup {name_match_score(sym, QueryTokens) :
                      sym \in {x \in IndexedSymbols : x.fqn = fqn}})

\* The semantic candidate set: the 2 x top_k most similar records.
Candidates ==
    ElementsOf(raw_semantic_search(query_embedding, embeddings, 2 * top_k))

CandidateScores(fqn) == {c.score : c \in {x \in Candidates : x.fqn = fqn}}

\* The semantic channel's score of an fqn: that of its candidate record
\* (of its least similar one when it has several), 0 when it has none.
SemanticScore(fqn) ==
    IF CandidateScores(fqn) = {} THEN 0 ELSE MinOf(CandidateScores(fqn))

\* The fqns touched by either channel.
Touched ==
    {sym.fqn : sym \in {x \in IndexedSymbols : LexicalScore(x.fqn) > 0}}
    \cup {c.fqn : c \in Candidates}

\* 0.7 x semantic + 0.3 x lexical, and the same to three decimals
Fused(fqn) == 7 * SemanticScore(fqn) + 3 * LexicalScore(fqn)

FusedRounded(fqn) == round_3(Fused(fqn))

HitFqns == {hits[i].fqn : i \in 1..Len(hits)}

\* The channels whose score for the fqn is not zero.
NonZeroChannels(fqn) ==
    (IF SemanticScore(fqn) # 0 THEN {"semantic"} ELSE {})
    \cup (IF LexicalScore(fqn) # 0 THEN {"name"} ELSE {})

\* C15: every hit's score is 0.7 x its semantic score + 0.3 x its lexical
\* score (to three decimals), a channel that did not touch the fqn counting
\* 0; no hit has score 0; and a hit's sources are exactly the channels
\* whose score for it is not zero, of either sign.
C15_FusedScoreAndSources ==
    SearchReturned =>
        \A i \in 1..Len(hits) :
            /\ hits[i].score = FusedRounded(hits[i].fqn)
            /\ hits[i].score # 0
            /\ ElementsOf(hits[i].sources) = NonZeroChannels(hits[i].fqn)

\* The touched fqns with a non-zero fused score that were not returned.
Dropped == {f \in Touched \ HitFqns : Fused(f) # 0}

CodePointOrder == <<":">> \o UpperCase \o <<"_">> \o LowerCase

CodePointRank(c) == CHOOSE i \in 1..Len(CodePointOrder) : CodePointOrder[i] = c

\* a < b of two str.
FqnLess(a, b) ==
    \E i \in 1..Len(b) :
        /\ i - 1 <= Len(a)
        /\ \A j \in 1..(i - 1) : a[j] = b[j]
        /\ \/ Len(a) = i - 1
           \/ CodePointRank(a[i]) < CodePointRank(b[i])

\* The sequences that hold the elements of seq in some order.
Orderings(seq) ==
    {[i \in 1..Len(seq) |-> seq[p[i]]] :
        p \in {f \in [1..Len(seq) -> 1..Len(seq)] :
                  \A i, j \in 1..Len(seq) : f[i] = f[j] => i = j}}

\* C17: hits of equal score come in fqn-ascending order, and the returned
\* list is the same for every iteration order of the files of the index
\* and of the records of the embedding store.
C17_TiesByFqnAnyOrder ==
    SearchReturned =>
        /\ \A i, j \in 1..Len(hits) :
               (i < j /\ hits[i].score = hits[j].score) =>
                   FqnLess(hits[i].fqn, hits[j].fqn)
        /\ \A files \in Orderings(ast_index) : \A store \in Orderings(embeddings) :
               semantic_search(query, top_k, files, store, query_embedding) = hits

\* C18: when the embedding request fails, the search still gives the hits
\* of the lexical channel alone.
C18_LexicalFallback ==
    search_pc = "raised" =>
        hits = fused_search(QueryTokens, <<>>, ast_index, top_k)

\* The indexed fqns whose name or fqn holds every token of the query.
Matching == {sym.fqn : sym \in {x \in IndexedSymbols : LexicalScore(x.fqn) = 1000}}

\* The returned fqns that share no token with the query.
UnrelatedHits == {f \in HitFqns : LexicalScore(f) = 0}

RankedAbove(m, u) ==
    \E i, j \in 1..Len(hits) : i < j /\ hits[i].fqn = m /\ hits[j].fqn = u

\* C19 as stated: a symbol that holds the query's tokens is ranked above
\* every returned symbol that shares no token with the query, whatever
\* their semantic scores and whether or not it is a semantic candidate.
C19_TokenMatchAlwaysAbove ==
    SearchReturned =>
        \A m \in Matching : \A u \in UnrelatedHits : RankedAbove(m, u)

\* C19, amended: a symbol that holds the query's tokens is ranked above a
\* returned symbol that shares no token with the query whenever its fused
\* score, 0.7 x semantic + 0.3 with semantic 0 outside the candidate set,
\* is not zero and at least the other's; it is not ranked above one whose
\* rounded fused score is higher.
C19_TokenMatchAboveWhenFusedAtLeast ==
    SearchReturned =>
        \A m \in Matching : \A u \in UnrelatedHits :
            /\ (Fused(m) # 0 /\ Fused(m) >= Fused(u)) => RankedAbove(m, u)
            /\ FusedRounded(u) > FusedRounded(m) => ~RankedAbove(m, u)

\* A symbol that holds both tokens and is no semantic candidate was
\* returned above a symbol without any token that is semantically closer.
C19_Witness ==
    /\ SearchReturned
    /\ \E m \in Matching : \E u \in UnrelatedHits :
          /\ CandidateScores(m) = {}
          /\ SemanticScore(u) > 0
          /\ RankedAbove(m, u)

\* validate_plan on a plan by itself: the outcome, the error and the final
\* ctx.variables of the loop from step i on.
RECURSIVE validate_plan_from(_, _, _)
RECURSIVE validate_plan_after(_, _, _, _)
validate_plan_after(steps, i, env, res) ==
    CASE res.status = "ok" -> validate_plan_from(steps, i + 1, res.value)
      [] res.status = "error" ->
           [outcome |-> "error",
            error |-> [step_index |-> i - 1, op |-> steps[i].op, kind |-> res.kind],
            variables |-> env]
      [] OTHER ->
           [outcome |-> "crash",
            error |-> [step_index |-> -1, op |-> "", kind |-> res.kind],
            variables |-> env]

validate_plan_from(steps, i, env) ==
    IF i > Len(steps)
    THEN [outcome |-> "ok", error |-> NoError, variables |-> env]
    ELSE validate_plan_after(steps, i, env, validate_step(steps[i], env))

validate_plan_alone(steps) == validate_plan_from(steps, 1, EmptyEnv)

RunFinished(r) == runs[r].outcome \in {"ok", "error", "crash"}

\* What call r ended with: its outcome, its error, its ctx.variables.
RunEnded(r) ==
    [outcome |-> runs[r].outcome, error |-> runs[r].error,
     variables |-> contexts[runs[r].ctx]]

\* C20: however the iterations of two validate_plan calls interleave, a
\* call that has ended has the outcome, the located error and the final
\* environment of validating its plan alone from an empty environment,
\* and the index is what the provider was built from.
C20_RunsIsolated ==
    /\ index = AstIndex
    /\ \A r \in DOMAIN runs :
          RunFinished(r) => RunEnded(r) = validate_plan_alone(runs[r].plan)

\* Two calls on different plans have ended, one with success and one with
\* a located failure, with different environments that are not empty, each
\* having validated a step while the other was in its loop.
C20_Witness ==
    /\ DOMAIN runs = Runs
    /\ runs[1].plan # runs[2].plan
    /\ runs[1].outcome = "ok"
    /\ runs[2].outcome = "error"
    /\ runs[1].overlapped /\ runs[2].overlapped
    /\ contexts[runs[1].ctx] # EmptyEnv
    /\ contexts[runs[2].ctx] # EmptyEnv
    /\ contexts[runs[1].ctx] # contexts[runs[2].ctx]

-----------------------------------------------------------------------------
\* The overloads of the method a Call names, in declaration order, whose
\* parameter types are exactly the inferred types of the step's arguments.
MatchingOverloads(step, env) ==
    SelectSeq(DeclaredMethods(env[step.target], step.method),
              LAMBDA m : ArgsHaveTypes(m.params, step.args, env))

\* A Call whose target is bound to a class that declares the method.
LastIsResolvableCall ==
    /\ HasLast
    /\ LastStep.op = "call"
    /\ LastStep.target \in DOMAIN pre
    /\ DeclaredMethods(pre[LastStep.target], LastStep.method) # <<>>

\* C21: a Call on a method the target's class declares, once or several
\* times, is accepted iff some overload's parameter types equal the
\* inferred argument types, and a result it names is bound to the return
\* type of the first such overload.
C21_CallOverloadResolution ==
    LastIsResolvableCall =>
        /\ LastOk <=> MatchingOverloads(LastStep, pre) # <<>>
        /\ (LastOk /\ NamesResult(LastStep)) =>
              variables = Bind(pre, LastStep.result,
                               MatchingOverloads(LastStep, pre)[1].return_type)

\* The latest step did not validate: validate_step raised, whatever it
\* raised.
LastFailed == HasLast /\ outcome \in {"error", "crash"}

IsTypeName(t) == t.kind = "str" /\ t.chars # <<>>

\* C23: while the steps validate, every variable of the environment is
\* bound to a type name, neither None nor "", and a Call whose target is in
\* the environment is not rejected as an unknown variable; also after a
\* Call that bound its result from a constructor's record.
C23_BindingsAreTypeNames ==
    /\ \A v \in DOMAIN variables : IsTypeName(variables[v])
    /\ (HasLast /\ LastStep.op = "call" /\ LastStep.target \in DOMAIN pre) =>
          ~LastFailedWith("UnknownVariable")

\* The name scores of the occurrences of a fqn in the index.
OccurrenceScores(fqn) ==
    {name_match_score(sym, QueryTokens) : sym \in {x \in IndexedSymbols : x.fqn = fqn}}

\* C24: no fqn is returned twice, and a hit's score is 0.7 x the lowest
\* similarity among the candidate records of its fqn (0 without any) +
\* 0.3 x the highest name score among the occurrences of its fqn in the
\* index (0 without any), to three decimals.
C24_RepeatedFqnScores ==
    SearchReturned =>
        /\ \A i, j \in 1..Len(hits) : hits[i].fqn = hits[j].fqn => i = j
        /\ \A i \in 1..Len(hits) :
              hits[i].score =
                 round_3(7 * (IF CandidateScores(hits[i].fqn) = {} THEN 0
                              ELSE MinOf(CandidateScores(hits[i].fqn)))
                         + 3 * MaxOf({0} \cup OccurrenceScores(hits[i].fqn)))

\* A search returned a fqn that two candidate records of different
\* similarity share and a fqn that occurs twice in the index with
\* different name scores.
C24_Witness ==
    /\ SearchReturned
    /\ \E i \in 1..Len(hits) : Cardinality(CandidateScores(hits[i].fqn)) >= 2
    /\ \E i \in 1..Len(hits) : Cardinality(OccurrenceScores(hits[i].fqn)) >= 2

=============================================================================
